---- MODULE Spec2Model ----
(***************************************************************************)
(* Model of martingale-cs (src/martingale-cs.c): confidence-sequence       *)
(* thresholds computed with directed rounding.                             *)
(*                                                                         *)
(* A `double` is modelled by its raw bit pattern, as memcpy sees it, in a  *)
(* binary floating-point format with the IEEE-754 layout (sign, biased     *)
(* exponent, fraction; subnormals, signed zeros, infinities, NaNs) and     *)
(* round-to-nearest-even arithmetic.  The format is parameterised by       *)
(* ExpBits and ManBits; binary64 is ExpBits = 11, ManBits = 52.  The       *)
(* 64-bit integer that holds a bit pattern is Width = 1+ExpBits+ManBits    *)
(* bits wide here, and wraps at 2^Width as uint64_t wraps at 2^64.         *)
(***************************************************************************)
EXTENDS Integers, Naturals, Sequences, FiniteSets, TLC

\* Bounds of the model: the floating-point format and the argument ranges.
ExpBits == 4
ManBits == 4
MaxN == 5
MaxMinCount == 4

(***************************************************************************)
(* Integer helpers.                                                        *)
(***************************************************************************)
RECURSIVE Pow2(_)
Pow2(k) == IF k <= 0 THEN 1 ELSE 2 * Pow2(k - 1)

RECURSIVE BitLen(_)
BitLen(m) == IF m <= 0 THEN 0 ELSE 1 + BitLen(m \div 2)

Max(a, b) == IF a >= b THEN a ELSE b

\* Bitwise exclusive or of two naturals (the C operator ^).
RECURSIVE Xor(_, _)
Xor(a, b) ==
    IF a = 0 THEN b
    ELSE IF b = 0 THEN a
    ELSE 2 * Xor(a \div 2, b \div 2) + ((a + b) % 2)

\* Largest q with q * q <= m.
RECURSIVE ISqrt(_)
ISqrt(m) ==
    IF m < 2 THEN m
    ELSE LET q == 2 * ISqrt(m \div 4)
         IN IF (q + 1) * (q + 1) <= m THEN q + 1 ELSE q

(***************************************************************************)
(* The floating-point format.                                              *)
(***************************************************************************)
Width == 1 + ExpBits + ManBits
Modulus == Pow2(Width)            \* bit patterns live in 0 .. Modulus-1
SignBit == Pow2(Width - 1)
Hidden == Pow2(ManBits)           \* the implicit leading one
ExpAllOnes == Pow2(ExpBits) - 1
Bias == Pow2(ExpBits - 1) - 1
EMin == 1 - Bias - ManBits        \* exponent of the last place of a subnormal
InfMag == ExpAllOnes * Hidden

SignOf(x) == x \div SignBit
MagOf(x) == x % SignBit
ExpField(x) == MagOf(x) \div Hidden
FracField(x) == x % Hidden

IsNaN(x) == MagOf(x) > InfMag
IsInf(x) == MagOf(x) = InfMag
IsZero(x) == MagOf(x) = 0
IsFinite(x) == MagOf(x) < InfMag

PosZero == 0
NegZero == SignBit
PosInf == InfMag                  \* HUGE_VAL
NegInf == SignBit + InfMag        \* -HUGE_VAL
QNaN == InfMag + Pow2(ManBits - 1)  \* the NaN an invalid operation returns

\* A finite x is (-1)^SignOf(x) * MantOf(x) * 2^ExpOf(x).
MantOf(x) == IF ExpField(x) = 0 THEN FracField(x) ELSE Hidden + FracField(x)
ExpOf(x) == Max(ExpField(x), 1) - Bias - ManBits

Neg(x) == Xor(x, SignBit)

\* The pattern of sign, exponent te (of the last place) and significand q,
\* q <= 2^(ManBits+1); a carry into the exponent and overflow to infinity
\* fall out of the addition.
Pack(sign, q, te) ==
    LET mag == (te - EMin) * Hidden + q
    IN sign * SignBit + (IF mag >= InfMag THEN InfMag ELSE mag)

\* Round (-1)^sign * (mant + f) * 2^exp to nearest, ties to even, where
\* 0 < f < 1 if sticky = 1 and f = 0 otherwise.  With sticky = 1, mant has
\* at least ManBits + 2 bits.
RoundPack(sign, mant, exp, sticky) ==
    IF mant = 0
    THEN sign * SignBit
    ELSE LET te == Max(exp + BitLen(mant) - (ManBits + 1), EMin)
             s == te - exp
         IN IF s <= 0 THEN Pack(sign, mant * Pow2(-s), te)
            ELSE IF s >= 30 THEN sign * SignBit
            ELSE LET q == mant \div Pow2(s)
                     r == mant % Pow2(s)
                     half == Pow2(s - 1)
                     up == \/ r > half
                           \/ r = half /\ (sticky = 1 \/ q % 2 = 1)
                 IN Pack(sign, q + (IF up THEN 1 ELSE 0), te)

\* Conversion of an unsigned integer to double.
FromNat(k) == RoundPack(0, k, 0, 0)

\* The double nearest to num / den (num >= 0, den > 0), a decimal literal.
Literal(num, den) ==
    LET k == ManBits + 3 + Max(0, BitLen(den) - BitLen(num))
        q == (num * Pow2(k)) \div den
        r == (num * Pow2(k)) % den
    IN RoundPack(0, q, -k, IF r = 0 THEN 0 ELSE 1)

\* The smallest double >= num / den (num, den > 0): a literal whose comment
\* says it was rounded up.
LiteralUp(num, den) ==
    LET x == Literal(num, den)
        below == IF ExpOf(x) >= 0
                 THEN MantOf(x) * Pow2(ExpOf(x)) * den < num
                 ELSE MantOf(x) * den < num * Pow2(-ExpOf(x))
    IN IF below THEN x + 1 ELSE x

(***************************************************************************)
(* IEEE-754 arithmetic, round to nearest even: what the C operators +, -,  *)
(* *, / and sqrt() compute on doubles.                                     *)
(***************************************************************************)
\* Sum of two finite doubles.  The operand with the larger exponent is
\* shifted left to the other's exponent; past ManBits + 3 places the other
\* operand only decides the sticky bit.
AddFinite(x, y) ==
    LET big == IF ExpOf(x) >= ExpOf(y) THEN x ELSE y
        small == IF ExpOf(x) >= ExpOf(y) THEN y ELSE x
        d == ExpOf(big) - ExpOf(small)
        sb == IF SignOf(big) = 1 THEN -1 ELSE 1
        ss == IF SignOf(small) = 1 THEN -1 ELSE 1
    IN IF MantOf(small) = 0 /\ MantOf(big) = 0
       THEN (IF SignOf(x) = 1 /\ SignOf(y) = 1 THEN NegZero ELSE PosZero)
       ELSE IF MantOf(small) = 0 THEN big
       ELSE IF MantOf(big) = 0 THEN small
       ELSE IF d <= ManBits + 3
       THEN LET sum == sb * MantOf(big) * Pow2(d) + ss * MantOf(small)
            IN IF sum = 0 THEN PosZero
               ELSE RoundPack(IF sum < 0 THEN 1 ELSE 0,
                              IF sum < 0 THEN -sum ELSE sum, ExpOf(small), 0)
       ELSE LET m == MantOf(big) * Pow2(ManBits + 3)
                e == ExpOf(big) - (ManBits + 3)
            IN IF sb = ss THEN RoundPack(SignOf(big), m, e, 1)
               ELSE RoundPack(SignOf(big), m - 1, e, 1)

Add(x, y) ==
    IF IsNaN(x) \/ IsNaN(y) THEN QNaN
    ELSE IF IsInf(x) /\ IsInf(y) THEN (IF x = y THEN x ELSE QNaN)
    ELSE IF IsInf(x) THEN x
    ELSE IF IsInf(y) THEN y
    ELSE AddFinite(x, y)

Sub(x, y) == IF IsNaN(y) THEN QNaN ELSE Add(x, Neg(y))

Mul(x, y) ==
    LET sign == (SignOf(x) + SignOf(y)) % 2
    IN IF IsNaN(x) \/ IsNaN(y) THEN QNaN
       ELSE IF IsInf(x) \/ IsInf(y)
       THEN (IF IsZero(x) \/ IsZero(y) THEN QNaN ELSE sign * SignBit + InfMag)
       ELSE RoundPack(sign, MantOf(x) * MantOf(y), ExpOf(x) + ExpOf(y), 0)

\* The significand and exponent of a finite non-zero double, the
\* significand shifted to ManBits + 1 bits.
NormMant(x) == MantOf(x) * Pow2(ManBits + 1 - BitLen(MantOf(x)))
NormExp(x) == ExpOf(x) - (ManBits + 1 - BitLen(MantOf(x)))

Div(x, y) ==
    LET sign == (SignOf(x) + SignOf(y)) % 2
    IN IF IsNaN(x) \/ IsNaN(y) THEN QNaN
       ELSE IF IsInf(x) THEN (IF IsInf(y) THEN QNaN ELSE sign * SignBit + InfMag)
       ELSE IF IsInf(y) THEN sign * SignBit
       ELSE IF IsZero(y) THEN (IF IsZero(x) THEN QNaN ELSE sign * SignBit + InfMag)
       ELSE IF IsZero(x) THEN sign * SignBit
       ELSE LET k == ManBits + 3
                num == NormMant(x) * Pow2(k)
                q == num \div NormMant(y)
                r == num % NormMant(y)
            IN RoundPack(sign, q, NormExp(x) - NormExp(y) - k,
                         IF r = 0 THEN 0 ELSE 1)

\* sqrt(): correctly rounded.
Sqrt(x) ==
    IF IsNaN(x) THEN QNaN
    ELSE IF IsZero(x) THEN x
    ELSE IF SignOf(x) = 1 THEN QNaN
    ELSE IF IsInf(x) THEN x
    ELSE LET k == ManBits + 4 + ((NormExp(x) + ManBits) % 2)
             m == NormMant(x) * Pow2(k)
             q == ISqrt(m)
         IN RoundPack(0, q, (NormExp(x) - k) \div 2, IF q * q = m THEN 0 ELSE 1)

(***************************************************************************)
(* libm's log2() and log().  The code assumes only that they are within 4  *)
(* units in the last place of the true value; they are modelled by one     *)
(* deterministic implementation of that accuracy: the binary logarithm     *)
(* digit by digit in fixed point with LogFracBits fraction bits, and the   *)
(* natural logarithm as log2(x) * ln 2.                                    *)
(***************************************************************************)
LogFracBits == 2 * ManBits + 4
LogOne == Pow2(LogFracBits)

\* The first i fraction bits of log2(f / LogOne), LogOne <= f < 2 * LogOne.
RECURSIVE Log2Frac(_, _)
Log2Frac(f, i) ==
    IF i = 0 THEN 0
    ELSE LET sq == (f * f) \div LogOne
         IN IF sq >= 2 * LogOne
            THEN Pow2(i - 1) + Log2Frac(sq \div 2, i - 1)
            ELSE Log2Frac(sq, i - 1)

\* log2 of a finite x > 0, in units of 1 / LogOne.
Log2Fixed(x) ==
    (NormExp(x) + ManBits) * LogOne
        + Log2Frac(NormMant(x) * Pow2(LogFracBits - ManBits), LogFracBits)

Log2(x) ==
    IF IsNaN(x) THEN QNaN
    ELSE IF IsZero(x) THEN NegInf
    ELSE IF SignOf(x) = 1 THEN QNaN
    ELSE IF IsInf(x) THEN x
    ELSE LET l == Log2Fixed(x)
         IN RoundPack(IF l < 0 THEN 1 ELSE 0, IF l < 0 THEN -l ELSE l,
                      -LogFracBits, 0)

\* ln 2 = 2839 / 4096 to twelve fraction bits.
Log(x) ==
    IF IsNaN(x) THEN QNaN
    ELSE IF IsZero(x) THEN NegInf
    ELSE IF SignOf(x) = 1 THEN QNaN
    ELSE IF IsInf(x) THEN x
    ELSE LET l == Log2Fixed(x) * 2839
         IN RoundPack(IF l < 0 THEN 1 ELSE 0, IF l < 0 THEN -l ELSE l,
                      -(LogFracBits + 12), 0)

\* The key of a non-NaN double in the order of the reals (-0 = +0).
Key(x) == IF SignOf(x) = 1 THEN -MagOf(x) ELSE MagOf(x)

\* The C comparisons; false as soon as an operand is a NaN.
Lt(x, y) == ~IsNaN(x) /\ ~IsNaN(y) /\ Key(x) < Key(y)
Le(x, y) == ~IsNaN(x) /\ ~IsNaN(y) /\ Key(x) <= Key(y)
Ge(x, y) == Le(y, x)
Gt(x, y) == Lt(y, x)


(***************************************************************************)
(* The program: src/martingale-cs.c.                                       *)
(***************************************************************************)
VARIABLES
    ndebug,     \* the build: TRUE when NDEBUG compiles the assert()s out
    fn,         \* the public function that was called, "none" before the call
    n, min_count, log_eps, span, lo, hi, quantile,   \* its arguments
    x,          \* the double handed to a safe-rounding utility
    ret         \* what the call did: [abort, val]

vars == <<ndebug, fn, n, min_count, log_eps, span, lo, hi, quantile, x, ret>>

\* A call either returns a double or dies in a failed assert().
Returns(v) == [abort |-> FALSE, val |-> v]
Aborts == [abort |-> TRUE, val |-> PosZero]

\* The double literals of the source.
Half == Literal(1, 2)
Quarter == Literal(1, 4)
One == FromNat(1)
Two == FromNat(2)
Three == FromNat(3)

martingale_cs_le == PosZero

\* -log 2 rounded away from 0.
martingale_cs_eq == Neg(LiteralUp(693148, 1000000))

\* -1/2 log log 2, rounded up.
minus_half_log_log_2_up == LiteralUp(183257, 1000000)

\* (int64_t)bits >> 63: all ones when the sign bit is set.
SignMask(bits) == IF bits >= SignBit THEN Modulus - 1 ELSE 0

\* float_bits with a logical shift for the mask: nothing is flipped.
float_bits_unflipped(d) == d

float_bits(d) == Xor(d, SignMask(d) \div 2)

bits_float(bits) == Xor(bits, SignMask(bits) \div 2)

next_k(d, delta) == bits_float((float_bits(d) + delta) % Modulus)

next(d) == next_k(d, 1)

prev_k(d, delta) == bits_float((float_bits(d) + Modulus - delta) % Modulus)

prev(d) == prev_k(d, 1)

libm_error_limit == 4

log_up(d) == next_k(Log(d), libm_error_limit)

log2_down(d) == prev_k(Log2(d), libm_error_limit)

sqrt_up(d) == next(Sqrt(d))

c == 2

\* log_a_up with the reciprocal forgotten: log(1 / Q_m) for log(Q_m).
log_a_up_no_reciprocal(m, e) ==
    LET inv_q_m == prev(Sub(log2_down(FromNat(m)), Half))
    IN Sub(log_up(next(inv_q_m)), e)

log_a_up(m, e) ==
    LET inv_q_m == prev(Sub(log2_down(FromNat(m)), Half))
    IN Sub(log_up(next(Div(One, inv_q_m))), e)

\* The formula of martingale_cs_threshold, past its early returns.
threshold_formula(k, m, e) ==
    LET log_a == log_a_up(m, e)
        inner == next(Add(next(Add(Mul(Half, log_up(log_up(FromNat(k)))),
                                   minus_half_log_log_2_up)),
                          Mul(Quarter, log_a)))
    IN next(Mul(Three, sqrt_up(next(Mul(FromNat(k), inner)))))

\* martingale_cs_threshold with the log_eps >= 0 test ahead of n < min_count.
threshold_eps_checked_first(k, m, e) ==
    LET clamped == IF m < c THEN c ELSE m
    IN IF ~ndebug /\ ~Le(e, PosZero) THEN Aborts
       ELSE IF Ge(e, PosZero) THEN Returns(NegInf)
       ELSE IF k < clamped THEN Returns(PosInf)
       ELSE Returns(threshold_formula(k, clamped, e))

\* martingale_cs_threshold without the clamp of min_count to c.
threshold_no_clamp(k, m, e) ==
    IF ~ndebug /\ ~Le(e, PosZero) THEN Aborts
    ELSE IF k < m THEN Returns(PosInf)
    ELSE IF Ge(e, PosZero) THEN Returns(NegInf)
    ELSE Returns(threshold_formula(k, m, e))

\* martingale_cs_threshold asserting log_eps < 0 for log_eps <= 0.
threshold_assert_strict(k, m, e) ==
    LET clamped == IF m < c THEN c ELSE m
    IN IF ~ndebug /\ ~Lt(e, PosZero) THEN Aborts
       ELSE IF k < clamped THEN Returns(PosInf)
       ELSE IF Ge(e, PosZero) THEN Returns(NegInf)
       ELSE Returns(threshold_formula(k, clamped, e))

martingale_cs_threshold(k, m, e) ==
    LET clamped == IF m < c THEN c ELSE m
    IN IF ~ndebug /\ ~Le(e, PosZero) THEN Aborts
       ELSE IF k < clamped THEN Returns(PosInf)
       ELSE IF Ge(e, PosZero) THEN Returns(NegInf)
       ELSE Returns(threshold_formula(k, clamped, e))

\* return next(scale * martingale_cs_threshold(...)): t is what the call of
\* martingale_cs_threshold did, and its abort is the wrapper's.
rescaled(scale, t) ==
    IF t.abort THEN Aborts ELSE Returns(next(Mul(scale, t.val)))

martingale_cs_threshold_span(k, m, s, e) ==
    rescaled(Div(s, Two), martingale_cs_threshold(k, m, e))

\* The scale of martingale_cs_threshold_range, from its span and rho.
range_scale(sp, rho) ==
    IF Le(rho, Half)
    THEN Div(sp, Two)
    ELSE next(Mul(sqrt_up(Mul(rho, next(Sub(One, rho)))), sp))

\* martingale_cs_threshold_range past its early return, sp its span.
range_of_span(k, m, l, sp, e) ==
    rescaled(range_scale(sp, prev(Div(Neg(l), sp))),
             martingale_cs_threshold(k, m, e))

\* martingale_cs_threshold_range with span = hi - lo, not nudged up.
threshold_range_exact_span(k, m, l, h, e) ==
    IF Ge(l, PosZero) \/ Le(h, PosZero) THEN Returns(PosZero)
    ELSE range_of_span(k, m, l, Sub(h, l), e)

\* martingale_cs_threshold_range testing lo > 0 || hi < 0.
threshold_range_strict_check(k, m, l, h, e) ==
    IF Gt(l, PosZero) \/ Lt(h, PosZero) THEN Returns(PosZero)
    ELSE range_of_span(k, m, l, next(Sub(h, l)), e)

martingale_cs_threshold_range(k, m, l, h, e) ==
    IF Ge(l, PosZero) \/ Le(h, PosZero) THEN Returns(PosZero)
    ELSE range_of_span(k, m, l, next(Sub(h, l)), e)

\* assert(quantile >= 0 && quantile <= 1.0)
QuantileAssertFails(q) == ~ndebug /\ ~(Ge(q, PosZero) /\ Le(q, One))

\* return 1 + t and return -1 - t, t what the call of the wrapper below did.
one_plus(t) == IF t.abort THEN Aborts ELSE Returns(Add(One, t.val))
minus_one_minus(t) == IF t.abort THEN Aborts ELSE Returns(Sub(Neg(One), t.val))

\* martingale_cs_quantile_slop with a span of 2 * quantile.
quantile_slop_scaled_by_quantile(q, k, m, e) ==
    IF QuantileAssertFails(q) THEN Aborts
    ELSE IF Le(q, PosZero) \/ Ge(q, One) THEN Returns(One)
    ELSE one_plus(martingale_cs_threshold_span(k, m, Add(q, q),
                                               Add(e, martingale_cs_eq)))

martingale_cs_quantile_slop(q, k, m, e) ==
    IF QuantileAssertFails(q) THEN Aborts
    ELSE IF Le(q, PosZero) \/ Ge(q, One) THEN Returns(One)
    ELSE one_plus(martingale_cs_threshold_span(k, m, One,
                                               Add(e, martingale_cs_eq)))

\* martingale_cs_quantile_slop_hi with its two endpoint results exchanged.
quantile_slop_hi_swapped(q, k, m, e) ==
    IF QuantileAssertFails(q) THEN Aborts
    ELSE IF Le(q, PosZero) THEN Returns(PosInf)
    ELSE IF Ge(q, One) THEN Returns(One)
    ELSE one_plus(martingale_cs_threshold_range(k, m, Sub(q, One), q,
                                                Add(e, martingale_cs_eq)))

martingale_cs_quantile_slop_hi(q, k, m, e) ==
    IF QuantileAssertFails(q) THEN Aborts
    ELSE IF Le(q, PosZero) THEN Returns(One)
    ELSE IF Ge(q, One) THEN Returns(PosInf)
    ELSE one_plus(martingale_cs_threshold_range(k, m, Sub(q, One), q,
                                                Add(e, martingale_cs_eq)))

martingale_cs_quantile_slop_lo(q, k, m, e) ==
    IF QuantileAssertFails(q) THEN Aborts
    ELSE IF Le(q, PosZero) THEN Returns(NegInf)
    ELSE IF Ge(q, One) THEN Returns(Neg(One))
    ELSE minus_one_minus(
             martingale_cs_threshold_range(k, m, Neg(q), Sub(One, q),
                                           Add(e, martingale_cs_eq)))

(***************************************************************************)
(* The arguments the callers of the model pass.                            *)
(***************************************************************************)
Counts == 0 .. MaxN
MinCounts == 0 .. MaxMinCount
\* 0, -0, -1/2, -2, -4, -infinity, and +1, which breaks the contract.
LogEpsValues ==
    {PosZero, NegZero, Neg(Half), Neg(Two), Neg(FromNat(4)), NegInf, One}
SpanValues == {Half, One, Two}
LoValues == {Neg(One), Neg(Half), Neg(Literal(9, 10)), PosZero, Half}
HiValues == {One, Half, Literal(1, 10), PosZero, Neg(One)}
\* 0, the smallest subnormal, 1/10, 1/2, 9/10, 1, and -1/2 and 3/2, which
\* break the contract.
QuantileValues ==
    {PosZero, 1, Literal(1, 10), Half, Literal(9, 10), One,
     Neg(Half), Literal(3, 2)}

Init ==
    /\ ndebug \in BOOLEAN
    /\ fn = "none"
    /\ n = 0 /\ min_count = 0
    /\ log_eps = PosZero /\ span = PosZero /\ lo = PosZero /\ hi = PosZero
    /\ quantile = PosZero
    /\ x = PosZero
    /\ ret = Returns(PosZero)

CallThreshold ==
    /\ fn = "none"
    /\ \E k \in Counts, m \in MinCounts, e \in LogEpsValues :
        /\ fn' = "threshold"
        /\ n' = k /\ min_count' = m /\ log_eps' = e
        /\ ret' = martingale_cs_threshold(k, m, e)
    /\ UNCHANGED <<ndebug, span, lo, hi, quantile, x>>

CallThresholdSpan ==
    /\ fn = "none"
    /\ \E k \in Counts, m \in MinCounts, s \in SpanValues, e \in LogEpsValues :
        /\ fn' = "threshold_span"
        /\ n' = k /\ min_count' = m /\ span' = s /\ log_eps' = e
        /\ ret' = martingale_cs_threshold_span(k, m, s, e)
    /\ UNCHANGED <<ndebug, lo, hi, quantile, x>>

CallThresholdRange ==
    /\ fn = "none"
    /\ \E k \in Counts, m \in MinCounts, l \in LoValues, h \in HiValues,
          e \in LogEpsValues :
        /\ fn' = "threshold_range"
        /\ n' = k /\ min_count' = m /\ lo' = l /\ hi' = h /\ log_eps' = e
        /\ ret' = martingale_cs_threshold_range(k, m, l, h, e)
    /\ UNCHANGED <<ndebug, span, quantile, x>>

CallQuantileSlop ==
    /\ fn = "none"
    /\ \E q \in QuantileValues, k \in Counts, m \in MinCounts,
          e \in LogEpsValues :
        /\ fn' = "quantile_slop"
        /\ quantile' = q /\ n' = k /\ min_count' = m /\ log_eps' = e
        /\ ret' = martingale_cs_quantile_slop(q, k, m, e)
    /\ UNCHANGED <<ndebug, span, lo, hi, x>>

CallQuantileSlopHi ==
    /\ fn = "none"
    /\ \E q \in QuantileValues, k \in Counts, m \in MinCounts,
          e \in LogEpsValues :
        /\ fn' = "quantile_slop_hi"
        /\ quantile' = q /\ n' = k /\ min_count' = m /\ log_eps' = e
        /\ ret' = martingale_cs_quantile_slop_hi(q, k, m, e)
    /\ UNCHANGED <<ndebug, span, lo, hi, x>>

CallQuantileSlopLo ==
    /\ fn = "none"
    /\ \E q \in QuantileValues, k \in Counts, m \in MinCounts,
          e \in LogEpsValues :
        /\ fn' = "quantile_slop_lo"
        /\ quantile' = q /\ n' = k /\ min_count' = m /\ log_eps' = e
        /\ ret' = martingale_cs_quantile_slop_lo(q, k, m, e)
    /\ UNCHANGED <<ndebug, span, lo, hi, x>>

Next ==
    \/ CallThreshold
    \/ CallThresholdSpan
    \/ CallThresholdRange
    \/ CallQuantileSlop
    \/ CallQuantileSlopHi
    \/ CallQuantileSlopLo

Spec == Init /\ [][Next]_vars

(***************************************************************************)
(* The safe-rounding utilities on their own: float_bits and next, applied  *)
(* to any bit pattern a double can hold.                                   *)
(***************************************************************************)
Doubles == 0 .. Modulus - 1

InitBits ==
    /\ ndebug \in BOOLEAN
    /\ fn = "none"
    /\ n = 0 /\ min_count = 0
    /\ log_eps = PosZero /\ span = PosZero /\ lo = PosZero /\ hi = PosZero
    /\ quantile = PosZero
    /\ x \in Doubles
    /\ ret = Returns(PosZero)

\* ret.val is the encoding, an integer of Width bits.
CallFloatBits ==
    /\ fn = "none"
    /\ fn' = "float_bits"
    /\ ret' = Returns(float_bits(x))
    /\ UNCHANGED <<ndebug, n, min_count, log_eps, span, lo, hi, quantile, x>>

CallNext ==
    /\ fn = "none"
    /\ fn' = "next"
    /\ ret' = Returns(next(x))
    /\ UNCHANGED <<ndebug, n, min_count, log_eps, span, lo, hi, quantile, x>>

NextBits ==
    \/ CallFloatBits
    \/ CallNext

SpecBits == InitBits /\ [][NextBits]_vars

(***************************************************************************)
(* The claims.  "The same value" is the same bit pattern.                  *)
(***************************************************************************)
\* The min_count the code works with: max(min_count, 2).
Floor(m) == Max(m, c)

\* C1: for log_eps <= 0, martingale_cs_threshold returns +infinity whenever
\* n < min_count, also when log_eps = 0: the n < min_count test comes before
\* the log_eps >= 0 test.
C1_EarlyIsInfinite ==
    (fn = "threshold" /\ Le(log_eps, PosZero) /\ n < min_count)
        => ret = Returns(PosInf)

\* C1's case: a call with n < min_count and log_eps = 0 returned +infinity.
C1_Witness ==
    /\ fn = "threshold" /\ n < min_count /\ n >= c
    /\ log_eps = PosZero /\ ret = Returns(PosInf)

\* C2: for 0 < quantile < 1, martingale_cs_quantile_slop returns
\* 1 + max(quantile, 1 - quantile) * martingale_cs_threshold(n, min_count,
\* log_eps + martingale_cs_eq); stated here where that threshold is finite.
C2_SlopScalesWithQuantile ==
    LET t == martingale_cs_threshold(n, min_count,
                                     Add(log_eps, martingale_cs_eq))
        q1 == Sub(One, quantile)
        factor == IF Gt(quantile, q1) THEN quantile ELSE q1
    IN (/\ fn = "quantile_slop" /\ ~ret.abort
        /\ Lt(PosZero, quantile) /\ Lt(quantile, One)
        /\ IsFinite(t.val))
           => ret.val = Add(One, Mul(factor, t.val))

C5_MinCountClampedToTwo ==
    (fn = "threshold" /\ Le(log_eps, PosZero) /\ min_count < 2)
        => /\ ret = martingale_cs_threshold(n, 2, log_eps)
           /\ n < 2 => ret = Returns(PosInf)

\* C5's case: min_count = 1 with n >= 1 and a finite threshold.
C5_Witness ==
    /\ fn = "threshold" /\ min_count = 1 /\ n >= 2
    /\ Lt(log_eps, PosZero) /\ ~ret.abort /\ IsFinite(ret.val)

\* C6: martingale_cs_threshold_range returns exactly 0 whenever lo >= 0 or
\* hi <= 0, whatever n, min_count and log_eps are (n < min_count and
\* log_eps >= 0 included): the core threshold and its assertion are not
\* evaluated.
C6_DegenerateRangeIsZero ==
    (fn = "threshold_range" /\ (Ge(lo, PosZero) \/ Le(hi, PosZero)))
        => ret = Returns(PosZero)

\* C6's case: a degenerate range with log_eps > 0 in a build with
\* assertions, and n < min_count.
C6_Witness ==
    /\ fn = "threshold_range" /\ lo = PosZero /\ Gt(hi, PosZero)
    /\ ~ndebug /\ Gt(log_eps, PosZero) /\ n < min_count
    /\ ret = Returns(PosZero)

\* C7 as claimed: for n >= max(min_count, 2) and log_eps >= 0,
\* martingale_cs_threshold returns -infinity; it does not abort.
C7_NonNegativeLogEpsReturnsNegInf ==
    (fn = "threshold" /\ n >= Floor(min_count) /\ Ge(log_eps, PosZero))
        => ret = Returns(NegInf)

\* C7 as amended: for n >= max(min_count, 2), martingale_cs_threshold returns
\* -infinity when log_eps = 0, and when log_eps > 0 in a build without
\* assertions (NDEBUG); with assertions, log_eps > 0 aborts in
\* assert(log_eps <= 0).
C7_NegInfOrAssert ==
    (fn = "threshold" /\ n >= Floor(min_count) /\ Ge(log_eps, PosZero))
        => ret = IF ~ndebug /\ Gt(log_eps, PosZero)
                 THEN Aborts
                 ELSE Returns(NegInf)

\* C7's case: log_eps = 0 in a build with assertions returned -infinity.
C7_Witness ==
    /\ fn = "threshold" /\ n >= Floor(min_count) /\ ~ndebug
    /\ log_eps = PosZero /\ ret = Returns(NegInf)

\* The endpoint results of the three quantile functions, by function name.
EndpointLow ==
    [quantile_slop |-> One, quantile_slop_hi |-> One,
     quantile_slop_lo |-> NegInf]
EndpointHigh ==
    [quantile_slop |-> One, quantile_slop_hi |-> PosInf,
     quantile_slop_lo |-> Neg(One)]
QuantileFns == {"quantile_slop", "quantile_slop_hi", "quantile_slop_lo"}

\* C8 as claimed: for quantile <= 0, quantile_slop_hi returns 1,
\* quantile_slop_lo -infinity and quantile_slop 1; for quantile >= 1,
\* quantile_slop_hi returns +infinity, quantile_slop_lo -1 and quantile_slop
\* 1; whatever n, min_count and log_eps are.
C8_EndpointQuantiles ==
    fn \in QuantileFns =>
        /\ Le(quantile, PosZero) => ret = Returns(EndpointLow[fn])
        /\ Ge(quantile, One) => ret = Returns(EndpointHigh[fn])

\* C8 as amended: the same results for quantile = 0 and quantile = 1, and for
\* quantile < 0 and quantile > 1 in a build without assertions (NDEBUG); with
\* assertions, a quantile outside [0, 1] aborts in the functions' assert.
C8_EndpointQuantilesOrAssert ==
    fn \in QuantileFns =>
        /\ Le(quantile, PosZero) =>
               ret = IF ~ndebug /\ Lt(quantile, PosZero)
                     THEN Aborts ELSE Returns(EndpointLow[fn])
        /\ Ge(quantile, One) =>
               ret = IF ~ndebug /\ Gt(quantile, One)
                     THEN Aborts ELSE Returns(EndpointHigh[fn])

\* C8's case: quantile_slop_hi at quantile = 1 returned +infinity, with
\* n >= min_count and a log_eps > 0 that the core threshold would reject.
C8_Witness ==
    /\ fn = "quantile_slop_hi" /\ quantile = One /\ ~ndebug
    /\ n >= Floor(min_count) /\ Gt(log_eps, PosZero)
    /\ ret = Returns(PosInf)

\* C9 as claimed: for every quantile q in [0, 1], quantile_slop(q, n,
\* min_count, log_eps) returns exactly what quantile_slop(1 - q, n,
\* min_count, log_eps) returns.  Stated here for n >= max(min_count, 2) and
\* finite log_eps < 0, where the core threshold is finite.
C9_QuantileSymmetry ==
    (/\ fn = "quantile_slop" /\ Ge(quantile, PosZero) /\ Le(quantile, One)
     /\ n >= Floor(min_count) /\ Lt(log_eps, PosZero) /\ IsFinite(log_eps))
        => ret = martingale_cs_quantile_slop(Sub(One, quantile), n,
                                             min_count, log_eps)

\* C9 as amended: the same, for q = 0, q = 1 and every q in (0, 1) whose
\* complement 1 - q, as the double subtraction rounds it, is below 1.
C9_QuantileSymmetryRepresentable ==
    (/\ fn = "quantile_slop" /\ Ge(quantile, PosZero) /\ Le(quantile, One)
     /\ Gt(quantile, PosZero) => Lt(Sub(One, quantile), One))
        => ret = martingale_cs_quantile_slop(Sub(One, quantile), n,
                                             min_count, log_eps)

\* C9's case: quantile 1/10 on a finite threshold; its complement is not
\* 1/10.
C9_Witness ==
    /\ fn = "quantile_slop" /\ quantile = Literal(1, 10)
    /\ Sub(One, quantile) # quantile /\ Gt(Sub(One, quantile), Half)
    /\ n >= Floor(min_count) /\ Lt(log_eps, PosZero)
    /\ ~ret.abort /\ IsFinite(ret.val) /\ Gt(ret.val, One)

\* C10: for n < max(min_count, 2) and log_eps <= 0, the +infinity of the core
\* threshold survives the wrappers: martingale_cs_threshold_span with
\* span > 0, martingale_cs_threshold_range with lo < 0 < hi and
\* martingale_cs_quantile_slop with 0 < quantile < 1 return +infinity, not
\* NaN.
C10_EarlyInfinitySurvivesWrappers ==
    (n < Floor(min_count) /\ Le(log_eps, PosZero))
        => /\ (fn = "threshold_span" /\ Gt(span, PosZero))
                  => ret = Returns(PosInf)
           /\ (fn = "threshold_range" /\ Lt(lo, PosZero) /\ Gt(hi, PosZero))
                  => ret = Returns(PosInf)
           /\ (fn = "quantile_slop" /\ Gt(quantile, PosZero)
                   /\ Lt(quantile, One))
                  => ret = Returns(PosInf)

\* The encoding read as a two's complement integer: (int64_t)bits.
Signed(bits) == IF bits >= SignBit THEN bits - Modulus ELSE bits

\* next(d) is the smallest double above d.
IsNextLarger(d, r) ==
    Lt(d, r) /\ \A y \in Doubles : Lt(d, y) => Le(r, y)

\* C11 as claimed: for all non-NaN doubles x and y (negative, zero or
\* positive), x < y implies float_bits(x) < float_bits(y) compared as
\* unsigned integers.
C11_UnsignedOrder ==
    (fn = "float_bits" /\ ~IsNaN(x))
        => \A y \in Doubles : Lt(x, y) => ret.val < float_bits(y)

\* C11 as amended: for all non-NaN doubles x and y, x < y implies
\* float_bits(x) < float_bits(y) compared as two's complement (signed)
\* integers; next(x) is the next larger representable value for every
\* non-NaN x except -0, where it is +0, and +infinity, where it is a NaN.
C11_SignedOrderAndNext ==
    /\ (fn = "float_bits" /\ ~IsNaN(x))
          => \A y \in Doubles :
                 Lt(x, y) => Signed(ret.val) < Signed(float_bits(y))
    /\ (fn = "next" /\ ~IsNaN(x))
          => IF x = PosInf THEN IsNaN(ret.val)
             ELSE IF x = NegZero THEN ret.val = PosZero
             ELSE IsNextLarger(x, ret.val)

\* C11's case: float_bits encoded a negative double, below the encoding of
\* every positive one as a signed integer and above it as an unsigned one.
C11_Witness ==
    /\ fn = "float_bits" /\ x = Neg(One)
    /\ Signed(ret.val) < Signed(float_bits(One))
    /\ ret.val > float_bits(One)

====
